---- MODULE Spec2Model ----
(***************************************************************************)
(* Model of the login endpoint of pkg/controller/login.go: one login       *)
(* attempt is a walk of pc through the handler, one action per blocking    *)
(* step (decode, captcha, validation, store lookup, dispatch on the number *)
(* of linked users, billing lookup).  Strings are sequences of one-letter  *)
(* strings so that trimming, lowercasing and len() are computed.           *)
(***************************************************************************)
EXTENDS Integers, Sequences, FiniteSets, TLC

VARIABLES pc, requestBody, loginRequest, err, login, subscription,
          subscriptionIsActive, response, calls, db, subscriptions,
          configuration, clock,
          seen,      \* the contents the store had while the transaction ran
          writes,    \* the number of writes other processes committed
          previous   \* the attempt the same client finished before this one

vars == <<pc, requestBody, loginRequest, err, login, subscription,
          subscriptionIsActive, response, calls, db, subscriptions,
          configuration, clock, seen, writes, previous>>

(* ------------------------------ bounds --------------------------------- *)

\* the store holds one login for every number of linked users 0..MaxUsers
MaxUsers == 2

\* time.Now() ranges over 0..MaxTime seconds
MaxTime == 1

\* other processes commit at most MaxWrites writes to the store
MaxWrites == 2

(* --------------------------- program constants ------------------------- *)

MinPasswordLength == 8

StatusOK == 200

StatusBadRequest == 400

StatusForbidden == 403

StatusInternalServerError == 500

StatusNotImplemented == 501

\* variant: the token lives thirty days
TokenLifetimeThirtyDays == 30 * 24 * 3600

TokenLifetime == 31 * 24 * 3600

Subject == "monetr"

NextUrlSubscribe == "/account/subscribe"

\* variant: the trialing status is missing from the first case
ActiveStatusesNoTrial == {"active"}

\* stripe.SubscriptionStatusActive, stripe.SubscriptionStatusTrialing
ActiveStatuses == {"active", "trialing"}

\* stripe.SubscriptionStatusPastDue ... stripe.SubscriptionStatusIncompleteExpired
InactiveStatuses == {"past_due", "unpaid", "canceled", "incomplete", "incomplete_expired"}

(* ------------------------------ strings -------------------------------- *)

WhiteSpace == {" ", "\t", "\n", "\r"}

UpperToLower ==
    [A |-> "a", B |-> "b", C |-> "c", D |-> "d", E |-> "e", F |-> "f",
     G |-> "g", H |-> "h", I |-> "i", J |-> "j", K |-> "k", L |-> "l",
     M |-> "m", N |-> "n", O |-> "o", P |-> "p", Q |-> "q", R |-> "r",
     S |-> "s", T |-> "t", U |-> "u", V |-> "v", W |-> "w", X |-> "x",
     Y |-> "y", Z |-> "z"]

\* strings.ToLower
ToLower(s) ==
    [i \in 1..Len(s) |-> IF s[i] \in DOMAIN UpperToLower THEN UpperToLower[s[i]] ELSE s[i]]

RECURSIVE TrimLeft(_)
TrimLeft(s) ==
    IF s # <<>> /\ Head(s) \in WhiteSpace THEN TrimLeft(Tail(s)) ELSE s

RECURSIVE TrimRight(_)
TrimRight(s) ==
    IF s # <<>> /\ s[Len(s)] \in WhiteSpace
    THEN TrimRight(SubSeq(s, 1, Len(s) - 1))
    ELSE s

\* strings.TrimSpace
TrimSpace(s) == TrimRight(TrimLeft(s))

(* --------------------------- the stored data --------------------------- *)

DigitChar == <<"0", "1", "2", "3", "4", "5", "6", "7", "8", "9">>

\* the stored (lowercase, trimmed) email of the login with n linked users
EmailOf(n) == <<"u", DigitChar[n + 1], "@", "x">>

GoodPassword == <<"p", "a", "s", "s", "w", "o", "r", "d">>

\* hash.HashPassword: deterministic, one-way, incorporates the identifier
HashPassword(email, password) == <<email, password>>

\* ids of the users linked to the login with n users: distinct across logins
UserIdOf(n, j) == ((n * (n - 1)) \div 2) + j

\* users belong to one of two accounts
AccountIdOf(j) == IF j % 2 = 1 THEN 2 ELSE 1

Accounts == {1, 2}

\* models.Login with its Users relation; LoginId is never 0
LoginRow(n) ==
    [LoginId      |-> n + 1,
     Email        |-> EmailOf(n),
     PasswordHash |-> HashPassword(EmailOf(n), GoodPassword),
     Users        |-> [j \in 1..n |->
                         [UserId    |-> UserIdOf(n, j),
                          LoginId   |-> n + 1,
                          AccountId |-> AccountIdOf(j)]]]

Store == {LoginRow(n) : n \in 0..MaxUsers}

\* the zero value of models.Login
ZeroLogin ==
    [LoginId |-> 0, Email |-> <<>>, PasswordHash |-> <<>>, Users |-> <<>>]

NoSubscription == "<nil>"

\* the statuses the billing data can hold; "all" and "paused" are outside
\* the vocabulary the handler recognises
SubscriptionStatuses ==
    {"active", "trialing", "past_due", "unpaid", "canceled", "incomplete",
     "incomplete_expired", "all", "paused"}

Keys == {"key1", "key2"}

APIDomain == "api.monetr.test"

(* ------------------------------ requests ------------------------------- *)

Pad(s) == <<" ">> \o s \o <<"\t", " ">>

Upper(s) ==
    [i \in 1..Len(s) |->
        IF \E u \in DOMAIN UpperToLower : UpperToLower[u] = s[i]
        THEN CHOOSE u \in DOMAIN UpperToLower : UpperToLower[u] = s[i]
        ELSE s[i]]

UnknownEmail == <<"n", "o", "@", "x">>

RequestEmails ==
    {EmailOf(n) : n \in 0..MaxUsers}
        \cup {Pad(Upper(EmailOf(n))) : n \in 0..MaxUsers}
        \cup {UnknownEmail}

RequestPasswords ==
    {GoodPassword,
     Pad(GoodPassword),
     <<"p", "a", "s", "s", "w", "0", "r", "d">>,
     <<"p", "a", "s", "s", "w", "o", "r">>,
     Pad(<<"s", "h", "o", "r", "t">>),
     <<" ", " ", " ", " ", " ", " ", " ", " ", " ">>,
     <<>>}

(* ------------------------------ responses ------------------------------ *)

NoBody == [k \in {} |-> ""]

NoResponse == [status |-> 0, body |-> NoBody]

\* c.returnError(ctx, status, message)
returnError(status, message) == [status |-> status, body |-> [error |-> message]]

\* c.wrapAndReturnError(ctx, err, status, message)
wrapAndReturnError(status, message) == [status |-> status, body |-> [error |-> message]]

\* c.wrapPgError(ctx, err, message)
wrapPgError(message) == wrapAndReturnError(StatusInternalServerError, message)

\* ctx.JSON(result)
JSON(result) == [status |-> StatusOK, body |-> result]

Call(op, args) == [op |-> op, args |-> args]

(* ------------------------------ the token ------------------------------ *)

\* HMAC-SHA256 of the signing input under a key
HMAC(key, header, payload) == [key |-> key, header |-> header, payload |-> payload]

\* json.Marshal of HarderClaims (jti is omitted when empty)
MarshalClaims(c) ==
    [loginId   |-> c.LoginId,
     userId    |-> c.UserId,
     accountId |-> c.AccountId,
     subStatus |-> c.SubscriptionStatus,
     aud       |-> c.Audience,
     exp       |-> c.ExpiresAt,
     iat       |-> c.IssuedAt,
     iss       |-> c.Issuer,
     nbf       |-> c.NotBefore,
     sub       |-> c.Subject]

\* the claims generateToken builds; SubscriptionStatus is not assigned and
\* keeps the zero value of bool
BuildClaims(loginId, userId, accountId, subscriptionActive, cfg, now) ==
    [LoginId            |-> loginId,
     UserId             |-> userId,
     AccountId          |-> accountId,
     SubscriptionStatus |-> FALSE,
     Audience           |-> <<cfg.APIDomainName>>,
     ExpiresAt          |-> now + TokenLifetime,
     IssuedAt           |-> now,
     Issuer             |-> cfg.APIDomainName,
     NotBefore          |-> now,
     Subject            |-> Subject]

\* jwt.NewWithClaims(jwt.SigningMethodHS256, claims).SignedString(secret)
SignedString(claims, key) ==
    LET header  == [alg |-> "HS256", typ |-> "JWT"]
        payload == MarshalClaims(claims)
    IN  [header |-> header, payload |-> payload,
         signature |-> HMAC(key, header, payload)]

\* variant: the user id and the account id are passed in the wrong order
generateTokenSwapped(loginId, userId, accountId, subscriptionActive, cfg, now) ==
    [token |-> SignedString(BuildClaims(loginId, accountId, userId,
                                        subscriptionActive, cfg, now),
                            cfg.LoginJwtSecret),
     err   |-> FALSE]

\* generateToken; signing with HS256 and a []byte key returns no error
generateToken(loginId, userId, accountId, subscriptionActive, cfg, now) ==
    [token |-> SignedString(BuildClaims(loginId, userId, accountId,
                                        subscriptionActive, cfg, now),
                            cfg.LoginJwtSecret),
     err   |-> FALSE]

\* json.Unmarshal into HarderClaims
UnmarshalClaims(p) ==
    [LoginId            |-> p.loginId,
     UserId             |-> p.userId,
     AccountId          |-> p.accountId,
     SubscriptionStatus |-> p.subStatus,
     Audience           |-> p.aud,
     ExpiresAt          |-> p.exp,
     IssuedAt           |-> p.iat,
     Issuer             |-> p.iss,
     NotBefore          |-> p.nbf,
     Subject            |-> p.sub]

\* decoding a token with a signing key: the signature is verified first
ParseToken(token, key) ==
    IF token.signature = HMAC(key, token.header, token.payload)
    THEN [valid |-> TRUE, claims |-> UnmarshalClaims(token.payload)]
    ELSE [valid |-> FALSE, claims |-> UnmarshalClaims(MarshalClaims(
             [LoginId |-> 0, UserId |-> 0, AccountId |-> 0,
              SubscriptionStatus |-> FALSE, Audience |-> <<>>,
              ExpiresAt |-> 0, IssuedAt |-> 0, Issuer |-> "",
              NotBefore |-> 0, Subject |-> ""]))]

(* ------------------------------ the handler ---------------------------- *)

\* variant: the minimum length is off by one
validateLoginOffByOne(email, password) == Len(password) < MinPasswordLength - 1

\* validateLogin: TRUE when an error is returned
validateLogin(email, password) == Len(password) < MinPasswordLength

\* variant: the query matches on the email alone
SelectLoginByEmail(rows, email, hashedPassword) ==
    {r \in rows : r.Email = email}

\* variant: the query has no WHERE clause and LIMIT 1 picks any login
SelectLoginNoWhere(rows, email, hashedPassword) == rows

\* the rows the query of the login transaction matches
SelectLogin(rows, email, hashedPassword) ==
    {r \in rows : r.Email = email /\ r.PasswordHash = hashedPassword}

\* repo.GetActiveSubscription for the account of the session
GetActiveSubscription(subs, accountId) == subs[accountId]

ErrNil == "<nil>"

\* pg.ErrNoRows
ErrNoRows == "pg: no rows in result set"

\* the other ways a query fails
QueryErrors == {"context canceled", "connection refused"}

EmptyRequest == [Email |-> <<>>, Password |-> <<>>]

\* no attempt of the client came before this one
NoPrevious == [requestBody |-> EmptyRequest, err |-> ErrNil, response |-> NoResponse]

\* two request bodies a client regards as the same credential: identifiers
\* equal up to letter case and surrounding white space, secrets equal up to
\* surrounding white space
SameCredential(a, b) ==
    /\ ToLower(TrimSpace(a.Email)) = ToLower(TrimSpace(b.Email))
    /\ TrimSpace(a.Password) = TrimSpace(b.Password)

\* variant: the identifier is trimmed but not lowercased
NormalizeRequestNoLower(body) ==
    [Email    |-> TrimSpace(body.Email),
     Password |-> TrimSpace(body.Password)]

\* lines 59-60: the identifier is trimmed and lowercased, the secret trimmed
NormalizeRequest(body) ==
    [Email    |-> ToLower(TrimSpace(body.Email)),
     Password |-> TrimSpace(body.Password)]

\* the has-many relation Users of a login: the users linked to it in the store
UsersOf(rows, loginId) ==
    IF \E r \in rows : r.LoginId = loginId
    THEN (CHOOSE r \in rows : r.LoginId = loginId).Users
    ELSE <<>>

\* variant: the transaction also unlinks the users of every login
CommittedWithoutUsers(rows) == {[r EXCEPT !.Users = <<>>] : r \in rows}

\* what the transaction leaves in the store: it only selects
Committed(rows) == rows

Init ==
    /\ pc = "ReadJSON"
    /\ requestBody = EmptyRequest
    /\ loginRequest = EmptyRequest
    /\ err = ErrNil
    /\ login = ZeroLogin
    /\ subscription = NoSubscription
    /\ subscriptionIsActive = FALSE
    /\ response = NoResponse
    /\ calls = <<>>
    /\ db = Store
    /\ subscriptions \in [Accounts -> SubscriptionStatuses \cup {NoSubscription}]
    /\ configuration \in [BillingEnabled : BOOLEAN,
                          APIDomainName  : {APIDomain},
                          LoginJwtSecret : Keys]
    /\ clock = 0
    /\ seen = {}
    /\ writes = 0
    /\ previous = NoPrevious

Finish(r) ==
    /\ response' = r
    /\ pc' = "done"

\* ctx.ReadJSON fails
ReadJSONError ==
    /\ pc = "ReadJSON"
    /\ err' = "invalid character"
    /\ Finish(wrapAndReturnError(StatusBadRequest, "failed to decode login request"))
    /\ UNCHANGED <<requestBody, loginRequest, login, subscription,
                   subscriptionIsActive, calls, db, subscriptions,
                   configuration, clock,
                   seen, writes, previous>>

\* ctx.ReadJSON decodes the body
ReadJSON ==
    /\ pc = "ReadJSON"
    /\ \E email \in RequestEmails, password \in RequestPasswords :
          /\ previous # NoPrevious =>
                SameCredential([Email |-> email, Password |-> password],
                               previous.requestBody)
          /\ requestBody' = [Email |-> email, Password |-> password]
          /\ loginRequest' = [Email |-> email, Password |-> password]
    /\ pc' = "validateCaptchaMaybe"
    /\ UNCHANGED <<err, login, subscription, subscriptionIsActive, response,
                   calls, db, subscriptions, configuration, clock,
                   seen, writes, previous>>

\* the captcha is required and does not verify
CaptchaError ==
    /\ pc = "validateCaptchaMaybe"
    /\ err' = "invalid captcha"
    /\ Finish(wrapAndReturnError(StatusBadRequest, "valid ReCAPTCHA is required"))
    /\ UNCHANGED <<requestBody, loginRequest, login, subscription,
                   subscriptionIsActive, calls, db, subscriptions,
                   configuration, clock,
                   seen, writes, previous>>

\* the captcha is not required, or verifies
CaptchaOk ==
    /\ pc = "validateCaptchaMaybe"
    /\ pc' = "validateLogin"
    /\ UNCHANGED <<requestBody, loginRequest, err, login, subscription,
                   subscriptionIsActive, response, calls, db, subscriptions,
                   configuration, clock,
                   seen, writes, previous>>

\* normalisation of the request, then validateLogin
ValidateLogin ==
    /\ pc = "validateLogin"
    /\ LET email    == NormalizeRequest(loginRequest).Email
           password == NormalizeRequest(loginRequest).Password
       IN  /\ loginRequest' = [Email |-> email, Password |-> password]
           /\ calls' = Append(calls, Call("validateLogin", <<email, password>>))
           /\ IF validateLogin(email, password)
              THEN /\ err' = "password must be at least 8 characters"
                   /\ Finish(wrapAndReturnError(StatusBadRequest, "login is not valid"))
              ELSE /\ pc' = "Select"
                   /\ UNCHANGED <<err, response>>
    /\ UNCHANGED <<requestBody, login, subscription, subscriptionIsActive,
                   db, subscriptions, configuration, clock,
                   seen, writes, previous>>

\* variant: every error of the transaction is answered as "no rows"
LookupErrorResponseAllForbidden(e) ==
    returnError(StatusForbidden, "invalid email and password")

\* the answer to an error of the transaction: pg.ErrNoRows or anything else
LookupErrorResponse(e) ==
    IF e = ErrNoRows
    THEN returnError(StatusForbidden, "invalid email and password")
    ELSE wrapAndReturnError(StatusInternalServerError, "failed to authenticate")

\* a statement of the transaction fails (connection error, cancelled
\* context): the transaction is rolled back and the error returned
SelectError ==
    /\ pc \in {"Select", "SelectUsers"}
    /\ LET hashedPassword == HashPassword(loginRequest.Email, loginRequest.Password)
       IN  calls' = IF pc = "Select"
                    THEN Append(calls, Call("Select", <<loginRequest.Email, hashedPassword>>))
                    ELSE calls
    /\ \E e \in QueryErrors :
          /\ err' = e
          /\ Finish(LookupErrorResponse(e))
    /\ db' = Committed(db)
    /\ UNCHANGED <<requestBody, loginRequest, login, subscription,
                   subscriptionIsActive, subscriptions, configuration, clock,
                   seen, writes, previous>>

\* the first statement of the transaction: the login row matching the email
\* and the hash, or no row
Select ==
    /\ pc = "Select"
    /\ LET hashedPassword == HashPassword(loginRequest.Email, loginRequest.Password)
           rows           == SelectLogin(db, loginRequest.Email, hashedPassword)
       IN  /\ calls' = Append(calls, Call("Select", <<loginRequest.Email, hashedPassword>>))
           /\ IF rows = {}
              THEN /\ err' = ErrNoRows
                   /\ Finish(LookupErrorResponse(ErrNoRows))
                   /\ UNCHANGED <<login, seen>>
              ELSE /\ \E r \in rows : login' = [r EXCEPT !.Users = <<>>]
                   /\ pc' = "SelectUsers"
                   /\ seen' = {db}
                   /\ UNCHANGED <<err, response>>
    /\ db' = Committed(db)
    /\ UNCHANGED <<requestBody, loginRequest, subscription, subscriptionIsActive,
                   subscriptions, configuration, clock, writes, previous>>

\* the second statement of the transaction: Relation("Users") is a has-many
\* relation, which the ORM loads with a query of its own for the selected
\* login; the transaction is opened without an isolation level, so this
\* statement reads what is committed at the time it runs
SelectUsers ==
    /\ pc = "SelectUsers"
    /\ login' = [login EXCEPT !.Users = UsersOf(db, login.LoginId)]
    /\ pc' = "switch"
    /\ db' = Committed(db)
    /\ UNCHANGED <<requestBody, loginRequest, err, subscription,
                   subscriptionIsActive, response, calls, subscriptions,
                   configuration, clock, seen, writes, previous>>

\* variant: the switch has no case 0
UsersCaseNoZero(n) == IF n = 1 THEN "case 1" ELSE "default"

\* variant: the switch has no default, every login with users is case 1
UsersCaseNoDefault(n) == IF n = 0 THEN "case 0" ELSE "case 1"

\* switch len(login.Users)
UsersCase(n) == IF n = 0 THEN "case 0" ELSE IF n = 1 THEN "case 1" ELSE "default"

\* the response of a call of generateToken followed by ctx.JSON(result)
TokenResponse(tok, result) ==
    IF tok.err
    THEN wrapAndReturnError(StatusInternalServerError, "could not generate JWT")
    ELSE JSON(result)

\* case 0: the login has no users
SwitchNoUsers ==
    /\ pc = "switch"
    /\ UsersCase(Len(login.Users)) = "case 0"
    /\ Finish(returnError(StatusForbidden, "user has no accounts"))
    /\ UNCHANGED <<requestBody, loginRequest, err, login, subscription,
                   subscriptionIsActive, calls, db, subscriptions,
                   configuration, clock,
                   seen, writes, previous>>

\* case 1 with billing disabled: the token of the only user
SwitchOneUserNoBilling ==
    /\ pc = "switch"
    /\ UsersCase(Len(login.Users)) = "case 1"
    /\ ~configuration.BillingEnabled
    /\ LET user == login.Users[1]
           tok  == generateToken(login.LoginId, user.UserId, user.AccountId, TRUE,
                                 configuration, clock)
       IN  /\ calls' = Append(calls, Call("generateToken",
                           <<login.LoginId, user.UserId, user.AccountId, TRUE>>))
           /\ Finish(TokenResponse(tok, [token |-> tok.token]))
    /\ UNCHANGED <<requestBody, loginRequest, err, login, subscription,
                   subscriptionIsActive, db, subscriptions, configuration, clock,
                   seen, writes, previous>>

\* case 1 with billing enabled: go on to the subscription of the account
SwitchOneUserBilling ==
    /\ pc = "switch"
    /\ UsersCase(Len(login.Users)) = "case 1"
    /\ configuration.BillingEnabled
    /\ pc' = "GetActiveSubscription"
    /\ UNCHANGED <<requestBody, loginRequest, err, login, subscription,
                   subscriptionIsActive, response, calls, db, subscriptions,
                   configuration, clock,
                   seen, writes, previous>>

\* default: a token for no user and no account, and the list of users
SwitchManyUsers ==
    /\ pc = "switch"
    /\ UsersCase(Len(login.Users)) = "default"
    /\ LET tok == generateToken(login.LoginId, 0, 0, TRUE, configuration, clock)
       IN  /\ calls' = Append(calls, Call("generateToken", <<login.LoginId, 0, 0, TRUE>>))
           /\ Finish(TokenResponse(tok, [token |-> tok.token, users |-> login.Users]))
    /\ UNCHANGED <<requestBody, loginRequest, err, login, subscription,
                   subscriptionIsActive, db, subscriptions, configuration, clock,
                   seen, writes, previous>>

\* variant: the error of repo.GetActiveSubscription is not checked and the
\* handler goes on with the nil subscription
GetActiveSubscriptionErrorIgnored ==
    /\ pc = "GetActiveSubscription"
    /\ \E e \in QueryErrors : err' = e
    /\ LET user == login.Users[1]
           tok  == generateToken(login.LoginId, user.UserId, user.AccountId, FALSE,
                                 configuration, clock)
       IN  /\ calls' = calls \o
                 <<Call("GetActiveSubscription", <<user.UserId, user.AccountId>>),
                   Call("generateToken",
                        <<login.LoginId, user.UserId, user.AccountId, FALSE>>)>>
           /\ Finish(JSON([token |-> tok.token, nextUrl |-> NextUrlSubscribe]))
    /\ UNCHANGED <<requestBody, loginRequest, login, subscription,
                   subscriptionIsActive, db, subscriptions, configuration, clock,
                   seen, writes, previous>>

\* repo.GetActiveSubscription fails
GetActiveSubscriptionError ==
    /\ pc = "GetActiveSubscription"
    /\ LET user == login.Users[1]
       IN  calls' = Append(calls, Call("GetActiveSubscription",
                                       <<user.UserId, user.AccountId>>))
    /\ \E e \in QueryErrors : err' = e
    /\ Finish(wrapPgError("failed to get active subscription"))
    /\ UNCHANGED <<requestBody, loginRequest, login, subscription,
                   subscriptionIsActive, db, subscriptions, configuration, clock,
                   seen, writes, previous>>

\* variant: an unrecognised status falls into the inactive case
SubscriptionSwitchDegrade(status) ==
    IF status \in ActiveStatuses THEN "active" ELSE "inactive"

\* switch subscription.Status
SubscriptionSwitch(status) ==
    IF status \in ActiveStatuses THEN "active"
    ELSE IF status \in InactiveStatuses THEN "inactive"
    ELSE "default"

\* variant: the redirect hint replaces the result map instead of extending it
SubscribeResultDropsToken(token, active) ==
    IF active
    THEN [token |-> token]
    ELSE [nextUrl |-> NextUrlSubscribe]

\* variant: the redirect hint is added whatever the subscription is
SubscribeResultAlwaysHint(token, active) ==
    [token |-> token, nextUrl |-> NextUrlSubscribe]

\* the result map of the billing path
SubscribeResult(token, active) ==
    IF active
    THEN [token |-> token]
    ELSE [token |-> token, nextUrl |-> NextUrlSubscribe]

\* the subscription is read and decides the token
SubscriptionStep ==
    /\ pc = "GetActiveSubscription"
    /\ LET user  == login.Users[1]
           sub   == GetActiveSubscription(subscriptions, user.AccountId)
           kind  == IF sub = NoSubscription THEN "inactive" ELSE SubscriptionSwitch(sub)
           asked == Call("GetActiveSubscription", <<user.UserId, user.AccountId>>)
           tok   == generateToken(login.LoginId, user.UserId, user.AccountId,
                                  kind = "active", configuration, clock)
       IN  /\ subscription' = sub
           /\ IF kind = "default"
              THEN /\ calls' = calls \o <<asked, Call("CaptureMessage", <<sub>>)>>
                   /\ Finish(returnError(StatusNotImplemented,
                                "invalid subscription status, create a github issue"))
                   /\ UNCHANGED subscriptionIsActive
              ELSE /\ subscriptionIsActive' = (kind = "active")
                   /\ calls' = calls \o <<asked, Call("generateToken",
                          <<login.LoginId, user.UserId, user.AccountId, kind = "active">>)>>
                   /\ Finish(TokenResponse(tok, SubscribeResult(tok.token, kind = "active")))
    /\ UNCHANGED <<requestBody, loginRequest, err, login, db, subscriptions,
                   configuration, clock,
                   seen, writes, previous>>

\* time passes
Tick ==
    /\ clock < MaxTime
    /\ clock' = clock + 1
    /\ UNCHANGED <<pc, requestBody, loginRequest, err, login, subscription,
                   subscriptionIsActive, response, calls, db, subscriptions,
                   configuration,
                   seen, writes, previous>>

\* the next request is served by a fresh invocation of the handler
NextRequest ==
    /\ pc = "done"
    /\ pc' = "ReadJSON"
    /\ requestBody' = EmptyRequest
    /\ loginRequest' = EmptyRequest
    /\ err' = ErrNil
    /\ login' = ZeroLogin
    /\ subscription' = NoSubscription
    /\ subscriptionIsActive' = FALSE
    /\ response' = NoResponse
    /\ calls' = <<>>
    /\ seen' = {}
    /\ previous' = NoPrevious
    /\ UNCHANGED <<db, subscriptions, configuration, clock, writes>>

Next ==
    \/ ReadJSONError
    \/ ReadJSON
    \/ CaptchaError
    \/ CaptchaOk
    \/ ValidateLogin
    \/ SelectError
    \/ Select
    \/ SelectUsers
    \/ SwitchNoUsers
    \/ SwitchOneUserNoBilling
    \/ SwitchOneUserBilling
    \/ SwitchManyUsers
    \/ GetActiveSubscriptionError
    \/ SubscriptionStep
    \/ Tick
    \/ NextRequest

Spec == Init /\ [][Next]_vars

(* ------------------- other processes writing the store ----------------- *)

NewPassword == <<"n", "e", "w", "p", "a", "s", "s", "1">>

\* the other processes work on one login, the one with the most users
WrittenLogins == {r \in db : r.LoginId = MaxUsers + 1}

\* a write another process commits: the store becomes rows
Commit(rows) ==
    /\ writes < MaxWrites
    /\ writes' = writes + 1
    /\ db' = rows
    /\ seen' = IF pc = "SelectUsers" THEN seen \cup {rows} ELSE seen
    /\ UNCHANGED <<pc, requestBody, loginRequest, err, login, subscription,
                   subscriptionIsActive, response, calls, subscriptions,
                   configuration, clock, previous>>

\* the credential of a login is changed
ChangePassword ==
    \E r \in WrittenLogins :
        /\ r.PasswordHash # HashPassword(r.Email, NewPassword)
        /\ Commit((db \ {r}) \cup
                    {[r EXCEPT !.PasswordHash = HashPassword(r.Email, NewPassword)]})

\* a user is linked to a login
LinkUser ==
    \E r \in WrittenLogins :
        /\ Len(r.Users) < MaxUsers
        /\ Commit((db \ {r}) \cup
                    {[r EXCEPT !.Users = Append(r.Users,
                         [UserId    |-> 10 * r.LoginId + Len(r.Users) + 1,
                          LoginId   |-> r.LoginId,
                          AccountId |-> AccountIdOf(Len(r.Users) + 1)])]})

\* a user is unlinked from a login
UnlinkUser ==
    \E r \in WrittenLogins :
        /\ Len(r.Users) > 0
        /\ Commit((db \ {r}) \cup
                    {[r EXCEPT !.Users = SubSeq(r.Users, 1, Len(r.Users) - 1)]})

\* the handler running while other processes write the store
InitWriters ==
    /\ Init
    /\ subscriptions[1] = "active"
    /\ subscriptions[2] \in {"active", "unpaid", "paused"}
    /\ configuration.LoginJwtSecret = "key1"

NextWriters ==
    \/ Next
    \/ ChangePassword
    \/ LinkUser
    \/ UnlinkUser

SpecWriters == InitWriters /\ [][NextWriters]_vars

(* ------------------- a client logging in a second time ---------------- *)

\* the client keeps the answer and submits the same credential again; the
\* handler starts afresh, nothing of the finished attempt stays in the process
Repeat ==
    /\ pc = "done"
    /\ previous = NoPrevious
    /\ requestBody # EmptyRequest
    /\ previous' = [requestBody |-> requestBody, err |-> err, response |-> response]
    /\ pc' = "ReadJSON"
    /\ requestBody' = EmptyRequest
    /\ loginRequest' = EmptyRequest
    /\ err' = ErrNil
    /\ login' = ZeroLogin
    /\ subscription' = NoSubscription
    /\ subscriptionIsActive' = FALSE
    /\ response' = NoResponse
    /\ calls' = <<>>
    /\ seen' = {}
    /\ UNCHANGED <<db, subscriptions, configuration, clock, writes>>

NextRepeat ==
    \/ Next
    \/ Repeat

\* one signing key, and every billing state for the account of the sole user
InitRepeat ==
    /\ Init
    /\ subscriptions[1] = "active"
    /\ configuration.LoginJwtSecret = "key1"

SpecRepeat == InitRepeat /\ [][NextRepeat]_vars

TypeOK ==
    /\ pc \in {"ReadJSON", "validateCaptchaMaybe", "validateLogin", "Select",
               "SelectUsers", "switch", "GetActiveSubscription", "done"}
    /\ clock \in 0..MaxTime
    /\ db = Store
    /\ (pc = "done") = (response # NoResponse)

(* ------------------------- terms of the claims ------------------------- *)

Invoked(op) == \E i \in DOMAIN calls : calls[i].op = op

HasToken == "token" \in DOMAIN response.body

HasError == "error" \in DOMAIN response.body

ErrorResponse(status, message) == [status |-> status, body |-> [error |-> message]]

InvalidInputResponse == ErrorResponse(400, "login is not valid")

InvalidCredentialsResponse == ErrorResponse(403, "invalid email and password")

NoLinkedAccountsResponse == ErrorResponse(403, "user has no accounts")

UnsupportedBillingStatusResponse ==
    ErrorResponse(501, "invalid subscription status, create a github issue")

\* the submitted credential as the specification normalises it
SubmittedEmail == ToLower(TrimSpace(requestBody.Email))

SubmittedSecret == TrimSpace(requestBody.Password)

\* the principals of the store whose identifier and digest match the credential
MatchingPrincipals ==
    {r \in db : r.Email = SubmittedEmail
                /\ r.PasswordHash = HashPassword(SubmittedEmail, SubmittedSecret)}

\* the store lookup of this attempt ran and did not fail
LookupAnswered == Invoked("Select") /\ err \notin QueryErrors

\* the billing resolver of this attempt ran and did not fail
ResolverAnswered ==
    pc = "done" /\ Invoked("GetActiveSubscription") /\ err \notin QueryErrors

\* the status the billing data holds for the account of the sole user
SoleUserStatus == subscriptions[login.Users[1].AccountId]

RecognisedActive == {"active", "trialing"}

RecognisedInactive ==
    {"past_due", "unpaid", "canceled", "incomplete", "incomplete_expired"}

\* the claims a verifier holding the configured key reads from the response
DecodedClaims == ParseToken(response.body.token, configuration.LoginJwtSecret).claims

IsAuthenticated == response.status = 200 /\ DOMAIN response.body = {"token"}

IsAuthenticatedNeedsSubscription ==
    /\ response.status = 200
    /\ DOMAIN response.body = {"token", "nextUrl"}

IsDisambiguation == response.status = 200 /\ DOMAIN response.body = {"token", "users"}

IsFailure(kind) ==
    /\ DOMAIN response.body = {"error"}
    /\ CASE kind = "InvalidInput" -> response.status = 400
         [] kind = "InvalidCredentials" -> response = InvalidCredentialsResponse
         [] kind = "NoLinkedAccounts" -> response = NoLinkedAccountsResponse
         [] kind = "UnsupportedBillingStatus" -> response.status = 501
         [] kind = "Infrastructure" -> response.status = 500

FailureKinds ==
    {"InvalidInput", "InvalidCredentials", "NoLinkedAccounts",
     "UnsupportedBillingStatus", "Infrastructure"}

(* -------------------------------- claims ------------------------------- *)

\* C1: while an attempt whose secret is shorter than 8 after trimming is
\* being served, the store lookup, the billing resolver and the token issuer
\* have not been invoked and are not about to be, and once validation has run
\* the attempt is over with the InvalidInput response.
C1_ShortSecretNeverReachesStore ==
    (pc # "ReadJSON" /\ Len(SubmittedSecret) < 8) =>
        /\ ~Invoked("Select")
        /\ ~Invoked("GetActiveSubscription")
        /\ ~Invoked("generateToken")
        /\ pc \in {"validateCaptchaMaybe", "validateLogin", "done"}
        /\ Invoked("validateLogin") =>
              (pc = "done" /\ response = InvalidInputResponse)

\* a secret of 8 or more characters of which fewer than 8 remain after
\* trimming has been rejected by validation
C1_Witness ==
    /\ pc = "done"
    /\ Invoked("validateLogin")
    /\ Len(requestBody.Password) >= 8
    /\ Len(SubmittedSecret) < 8
    /\ Len(SubmittedSecret) > 0
    /\ response = InvalidInputResponse

\* C2: when the lookup answered, an identifier that is not in the store and
\* an identifier that is in the store with another digest both end in the
\* one InvalidCredentials response (same status, same message), and no token.
C2_UnknownIdentifierLikeWrongSecret ==
    LET unknown     == \A r \in db : r.Email # SubmittedEmail
        wrongSecret == \E r \in db :
                          /\ r.Email = SubmittedEmail
                          /\ r.PasswordHash # HashPassword(SubmittedEmail, SubmittedSecret)
    IN  (pc = "done" /\ LookupAnswered) =>
            /\ unknown => (response = InvalidCredentialsResponse /\ ~HasToken)
            /\ wrongSecret => (response = InvalidCredentialsResponse /\ ~HasToken)

\* an existing identifier with a wrong secret got the InvalidCredentials response
C2_Witness ==
    /\ pc = "done"
    /\ LookupAnswered
    /\ \E r \in db : r.Email = SubmittedEmail
    /\ MatchingPrincipals = {}
    /\ response = InvalidCredentialsResponse

\* C3: one linked user, billing enabled, and a status outside the recognised
\* vocabulary: the attempt ends in UnsupportedBillingStatus, the token issuer
\* was not invoked, the response has no token and no redirect hint, and the
\* observability sink was notified.
C3_UnknownStatusAborts ==
    (/\ ResolverAnswered
     /\ Len(login.Users) = 1
     /\ configuration.BillingEnabled
     /\ SoleUserStatus \notin RecognisedActive \cup RecognisedInactive \cup {NoSubscription}) =>
        /\ response = UnsupportedBillingStatusResponse
        /\ ~Invoked("generateToken")
        /\ ~HasToken
        /\ "nextUrl" \notin DOMAIN response.body
        /\ Invoked("CaptureMessage")

\* the sole user's account had the unrecognised status "paused"
C3_Witness ==
    /\ ResolverAnswered
    /\ Len(login.Users) = 1
    /\ configuration.BillingEnabled
    /\ SoleUserStatus = "paused"
    /\ response.status = 501
    /\ Invoked("CaptureMessage")

\* C4: one linked user and billing enabled: a status resolved to Active
\* gives Authenticated with a token whose claims say authorized, a status
\* resolved to Inactive gives AuthenticatedNeedsSubscription with a token whose
\* claims say not authorized; the token names the sole user and its account.
C4_BillingDecidesAuthorized ==
    (/\ ResolverAnswered
     /\ Len(login.Users) = 1
     /\ configuration.BillingEnabled) =>
        /\ SoleUserStatus \in RecognisedActive =>
              /\ IsAuthenticated
              /\ DecodedClaims.SubscriptionStatus = TRUE
              /\ DecodedClaims.UserId = login.Users[1].UserId
              /\ DecodedClaims.AccountId = login.Users[1].AccountId
        /\ SoleUserStatus \in RecognisedInactive \cup {NoSubscription} =>
              /\ IsAuthenticatedNeedsSubscription
              /\ DecodedClaims.SubscriptionStatus = FALSE
              /\ DecodedClaims.UserId = login.Users[1].UserId
              /\ DecodedClaims.AccountId = login.Users[1].AccountId

\* C5: one linked user and billing disabled: Authenticated, with a token
\* whose claims say authorized and name the sole user and its account,
\* whatever the billing data; the billing resolver was not invoked.
C5_BillingDisabledAuthorizes ==
    (/\ pc = "done"
     /\ LookupAnswered
     /\ Len(login.Users) = 1
     /\ ~configuration.BillingEnabled) =>
        /\ IsAuthenticated
        /\ DecodedClaims.SubscriptionStatus = TRUE
        /\ DecodedClaims.UserId = login.Users[1].UserId
        /\ DecodedClaims.AccountId = login.Users[1].AccountId
        /\ ~Invoked("GetActiveSubscription")

\* C6: two or more linked users: Disambiguation, with a token whose claims
\* have userId 0, accountId 0 and authorized, as many returned users as the
\* principal has, and no call of the billing resolver.
C6_DisambiguationToken ==
    (/\ pc = "done"
     /\ LookupAnswered
     /\ Len(login.Users) >= 2) =>
        /\ IsDisambiguation
        /\ DecodedClaims.UserId = 0
        /\ DecodedClaims.AccountId = 0
        /\ DecodedClaims.SubscriptionStatus = TRUE
        /\ \A r \in MatchingPrincipals : Len(response.body.users) = Len(r.Users)
        /\ ~Invoked("GetActiveSubscription")

\* C7: the credential matches a principal without linked users: the attempt
\* ends in NoLinkedAccounts, which is not the InvalidCredentials response,
\* and neither the billing resolver nor the token issuer was invoked.
C7_NoLinkedAccounts ==
    (/\ pc = "done"
     /\ LookupAnswered
     /\ \E r \in MatchingPrincipals : Len(r.Users) = 0) =>
        /\ response = NoLinkedAccountsResponse
        /\ response # InvalidCredentialsResponse
        /\ ~Invoked("GetActiveSubscription")
        /\ ~Invoked("generateToken")
        /\ ~HasToken

\* the principal without users logged in with its own credential
C7_Witness ==
    /\ pc = "done"
    /\ LookupAnswered
    /\ \E r \in MatchingPrincipals : Len(r.Users) = 0
    /\ login.LoginId # 0
    /\ response.status = 403

\* the arguments of the call of the token issuer in this attempt
IssuerArgs ==
    LET i == CHOOSE i \in DOMAIN calls : calls[i].op = "generateToken"
    IN  calls[i].args

\* C8: the token of the response, decoded with the signing key, yields the
\* principalId, userId, accountId and authorized passed to the issuer, and
\* does not decode with any other key.
C8_TokenRoundTrip ==
    (pc = "done" /\ HasToken) =>
        LET parsed == ParseToken(response.body.token, configuration.LoginJwtSecret)
        IN  /\ parsed.valid
            /\ parsed.claims.LoginId = IssuerArgs[1]
            /\ parsed.claims.UserId = IssuerArgs[2]
            /\ parsed.claims.AccountId = IssuerArgs[3]
            /\ parsed.claims.SubscriptionStatus = IssuerArgs[4]
            /\ \A k \in Keys \ {configuration.LoginJwtSecret} :
                  ~ParseToken(response.body.token, k).valid

\* C9: a finished attempt has exactly one Outcome variant, its response never
\* has both an error and a token, and it has a token exactly when the variant
\* is Authenticated, AuthenticatedNeedsSubscription or Disambiguation.
C9_ExactlyOneOutcome ==
    (pc = "done") =>
        LET successes == (IF IsAuthenticated THEN {"Authenticated"} ELSE {})
                           \cup (IF IsAuthenticatedNeedsSubscription
                                 THEN {"AuthenticatedNeedsSubscription"} ELSE {})
                           \cup (IF IsDisambiguation THEN {"Disambiguation"} ELSE {})
            failures  == {k \in FailureKinds : IsFailure(k)}
        IN  /\ Cardinality(successes) + Cardinality(failures) = 1
            /\ ~(HasError /\ HasToken)
            /\ HasToken <=> (successes # {})

\* an attempt ended as AuthenticatedNeedsSubscription
C9_Witness ==
    /\ pc = "done"
    /\ IsAuthenticatedNeedsSubscription
    /\ ~HasError

\* the state the handler resolved the billing data to
ResolvedBillingState ==
    IF response.status = 501 THEN "Unknown"
    ELSE IF subscriptionIsActive THEN "Active"
    ELSE "Inactive"

\* C10: whenever the resolver answered, the billing state the handler acts on
\* is Active for active and trialing, Inactive for past_due, unpaid, canceled,
\* incomplete, incomplete_expired and for no subscription, Unknown otherwise.
C10_StatusMapping ==
    ResolverAnswered =>
        /\ response.status \in {200, 501}
        /\ SoleUserStatus \in {"active", "trialing"} =>
              (ResolvedBillingState = "Active" /\ HasToken)
        /\ SoleUserStatus \in {"past_due", "unpaid", "canceled", "incomplete",
                               "incomplete_expired"} =>
              (ResolvedBillingState = "Inactive" /\ HasToken)
        /\ SoleUserStatus = NoSubscription =>
              (ResolvedBillingState = "Inactive" /\ HasToken)
        /\ SoleUserStatus \notin {"active", "trialing", "past_due", "unpaid",
                                  "canceled", "incomplete", "incomplete_expired",
                                  NoSubscription} =>
              (ResolvedBillingState = "Unknown" /\ ~HasToken)

\* the resolver answered for an account in trial
C10_Witness ==
    /\ ResolverAnswered
    /\ SoleUserStatus = "trialing"
    /\ ResolvedBillingState = "Active"

\* C11: when the store lookup fails for a reason other than "no rows"
\* (cancellation included), the attempt ends in the Infrastructure failure,
\* which is not the InvalidCredentials response, and no token is issued.
C11_LookupFailureIsInfrastructure ==
    (pc = "done" /\ Invoked("Select") /\ ~Invoked("GetActiveSubscription")
       /\ err \in QueryErrors) =>
        /\ IsFailure("Infrastructure")
        /\ response.status = 500
        /\ ~IsFailure("InvalidCredentials")
        /\ response # InvalidCredentialsResponse
        /\ ~Invoked("generateToken")
        /\ ~HasToken

\* the lookup of an attempt with a valid credential was cancelled
C11_Witness ==
    /\ pc = "done"
    /\ Invoked("Select")
    /\ ~Invoked("GetActiveSubscription")
    /\ err = "context canceled"
    /\ MatchingPrincipals # {}
    /\ response.status = 500

\* C12: one linked user, billing enabled, and the call of the billing
\* resolver fails: the attempt ends in a Failure, the token issuer was not
\* invoked and the response has no token.
C12_ResolverFailureIssuesNothing ==
    (pc = "done" /\ Invoked("GetActiveSubscription") /\ err \in QueryErrors) =>
        /\ Len(login.Users) = 1
        /\ configuration.BillingEnabled
        /\ \E k \in FailureKinds : IsFailure(k)
        /\ HasError
        /\ ~Invoked("generateToken")
        /\ ~HasToken
        /\ "nextUrl" \notin DOMAIN response.body

\* the resolver call of the sole user of a principal was cancelled
C12_Witness ==
    /\ pc = "done"
    /\ Invoked("GetActiveSubscription")
    /\ err = "context canceled"
    /\ Len(login.Users) = 1
    /\ response.status >= 400

\* C13: the login with its users that an attempt branches on is a snapshot:
\* at one point in time while the transaction ran, the store held this
\* principal with this credential and exactly these linked users.
C13_LookupIsSnapshot ==
    (pc \in {"switch", "GetActiveSubscription"}
       \/ (pc = "done" /\ login # ZeroLogin /\ err \notin QueryErrors)) =>
        \E rows \in seen : login \in rows

\* what a response says apart from the timestamps and the signature of its token
Substance(r, key) ==
    [variant   |-> DOMAIN r.body,
     loginId   |-> ParseToken(r.body.token, key).claims.LoginId,
     userId    |-> ParseToken(r.body.token, key).claims.UserId,
     accountId |-> ParseToken(r.body.token, key).claims.AccountId,
     subStatus |-> ParseToken(r.body.token, key).claims.SubscriptionStatus,
     nextUrl   |-> IF "nextUrl" \in DOMAIN r.body THEN <<r.body.nextUrl>> ELSE <<>>,
     users     |-> IF "users" \in DOMAIN r.body THEN r.body.users ELSE <<>>]

\* C14: two successive successful logins with the identical request, the
\* store, the billing data and the configuration being the same, have the
\* same variant, principalId, userId, accountId, authorized flag, redirect
\* hint and users list.
C14_RepeatedLoginSameOutcome ==
    (/\ pc = "done"
     /\ previous # NoPrevious
     /\ previous.requestBody = requestBody
     /\ previous.response.status = 200
     /\ response.status = 200) =>
        Substance(response, configuration.LoginJwtSecret)
            = Substance(previous.response, configuration.LoginJwtSecret)

\* two successful logins of the principal with several users, the second
\* one later: the tokens differ
C14_Witness ==
    /\ pc = "done"
    /\ previous # NoPrevious
    /\ previous.requestBody = requestBody
    /\ previous.response.status = 200
    /\ response.status = 200
    /\ IsDisambiguation
    /\ response.body.token # previous.response.body.token

\* C15: in the step that issues a token, whichever branch it is, the claims
\* have iat = nbf = the time of the step, exp = iat + 31*24*3600, the API
\* domain as the only audience and as the issuer, and the subject "monetr".
C15_TokenTimesAndNames ==
    [][(pc # "done" /\ pc' = "done" /\ "token" \in DOMAIN response'.body) =>
          LET c == ParseToken(response'.body.token, configuration.LoginJwtSecret).claims
          IN  /\ c.IssuedAt = clock
              /\ c.NotBefore = clock
              /\ c.ExpiresAt = c.IssuedAt + 2678400
              /\ c.Audience = <<configuration.APIDomainName>>
              /\ c.Issuer = configuration.APIDomainName
              /\ c.Subject = "monetr"]_vars

\* a token issued at second 1 on the disambiguation branch
C15_Witness ==
    /\ pc = "done"
    /\ IsDisambiguation
    /\ DecodedClaims.IssuedAt = 1
    /\ DecodedClaims.ExpiresAt = 2678401

\* the place of a collaborator in the order of the flow
Rank(op) ==
    CASE op = "validateLogin" -> 1
      [] op = "Select" -> 2
      [] op = "GetActiveSubscription" -> 3
      [] op = "CaptureMessage" -> 4
      [] op = "generateToken" -> 5

Times(op) == Cardinality({i \in DOMAIN calls : calls[i].op = op})

\* C16: the calls of an attempt are in the order validation, store lookup,
\* billing resolver, token issuer, each at most once; the lookup only after
\* validation passed, the resolver only for exactly one user with billing
\* enabled, the issuer only after a lookup that returned a login with users.
C16_CallOrder ==
    /\ \A i, j \in DOMAIN calls : i < j => Rank(calls[i].op) < Rank(calls[j].op)
    /\ \A op \in {"validateLogin", "Select", "GetActiveSubscription", "generateToken"} :
          Times(op) <= 1
    /\ Invoked("Select") =>
          /\ calls[1].op = "validateLogin"
          /\ Len(SubmittedSecret) >= 8
    /\ Invoked("GetActiveSubscription") =>
          /\ Invoked("Select")
          /\ Len(login.Users) = 1
          /\ configuration.BillingEnabled
    /\ Invoked("generateToken") =>
          /\ Invoked("Select")
          /\ login \in db
          /\ Len(login.Users) >= 1
          /\ Len(login.Users) = 1 =>
                (Invoked("GetActiveSubscription") <=> configuration.BillingEnabled)
          /\ Len(login.Users) > 1 => ~Invoked("GetActiveSubscription")

\* an attempt went through all four collaborators
C16_Witness ==
    /\ pc = "done"
    /\ Len(calls) = 4
    /\ calls[1].op = "validateLogin"
    /\ calls[2].op = "Select"
    /\ calls[3].op = "GetActiveSubscription"
    /\ calls[4].op = "generateToken"

\* C17: a successful response has the redirect hint exactly when the
\* principal has one linked user, billing is enabled and the billing data of
\* the account is one of the inactive statuses or no subscription at all.
C17_RedirectHint ==
    (pc = "done" /\ response.status = 200) =>
        /\ ("nextUrl" \in DOMAIN response.body) <=>
              /\ Len(login.Users) = 1
              /\ configuration.BillingEnabled
              /\ SoleUserStatus \in RecognisedInactive \cup {NoSubscription}
        /\ "nextUrl" \in DOMAIN response.body =>
              response.body.nextUrl = "/account/subscribe"
        /\ ~configuration.BillingEnabled => "nextUrl" \notin DOMAIN response.body
        /\ IsDisambiguation => "nextUrl" \notin DOMAIN response.body

\* the sole user's account has no subscription and the response has the hint
C17_Witness ==
    /\ pc = "done"
    /\ response.status = 200
    /\ Len(login.Users) = 1
    /\ SoleUserStatus = NoSubscription
    /\ "nextUrl" \in DOMAIN response.body

\* the errors that come from the collaborators and not from the credential
TransientErrors == QueryErrors \cup {"invalid character", "invalid captcha"}

\* C18: two attempts against the same store whose identifiers differ only in
\* letter case or surrounding white space and whose secrets differ only in
\* surrounding white space, none of them hit by a failing collaborator, have
\* the same outcome: the same error response, or the same successful
\* response up to the timestamps of the token.
C18_NormalisedCredentialSameOutcome ==
    (/\ pc = "done"
     /\ previous # NoPrevious
     /\ ToLower(TrimSpace(previous.requestBody.Email)) = ToLower(TrimSpace(requestBody.Email))
     /\ TrimSpace(previous.requestBody.Password) = TrimSpace(requestBody.Password)
     /\ err \notin TransientErrors
     /\ previous.err \notin TransientErrors) =>
        /\ response.status = previous.response.status
        /\ response.status # 200 => response = previous.response
        /\ response.status = 200 =>
              Substance(response, configuration.LoginJwtSecret)
                  = Substance(previous.response, configuration.LoginJwtSecret)

\* a login with the stored spelling after one in capitals with padding,
\* both successful
C18_Witness ==
    /\ pc = "done"
    /\ previous # NoPrevious
    /\ previous.requestBody.Email # requestBody.Email
    /\ previous.requestBody.Password # requestBody.Password
    /\ requestBody.Email = ToLower(TrimSpace(requestBody.Email))
    /\ previous.response.status = 200
    /\ response.status = 200

\* C19: every step of the handler, on the paths that succeed, fail or are
\* cancelled alike, leaves the credential store and the billing data as they
\* were; only other processes change the store.
C19_HandlerOnlyReads ==
    [][(pc' # pc \/ calls' # calls \/ response' # response \/ login' # login
          \/ loginRequest' # loginRequest \/ err' # err) =>
          (db' = db /\ subscriptions' = subscriptions)]_vars

\* an attempt was cancelled during the lookup after another process had
\* written the store
C19_Witness ==
    /\ pc = "done"
    /\ Invoked("Select")
    /\ err = "context canceled"
    /\ writes > 0
    /\ db # Store

\* C20: the token of a response names the principal whose stored identifier
\* and digest matched the submitted credential when the transaction read
\* it; when its userId or accountId is not 0, that principal had exactly one
\* linked user when the transaction read its users and the pair is that
\* user's; a token never names a user or account not linked to the principal.
C20_TokenNamesAuthenticatedPrincipal ==
    (pc = "done" /\ HasToken) =>
        /\ \E rows \in seen : \E r \in rows :
              /\ r.Email = SubmittedEmail
              /\ r.PasswordHash = HashPassword(SubmittedEmail, SubmittedSecret)
              /\ DecodedClaims.LoginId = r.LoginId
        /\ (DecodedClaims.UserId # 0 \/ DecodedClaims.AccountId # 0) =>
              \E rows \in seen : \E r \in rows :
                    /\ r.LoginId = DecodedClaims.LoginId
                    /\ Len(r.Users) = 1
                    /\ DecodedClaims.UserId = r.Users[1].UserId
                    /\ DecodedClaims.AccountId = r.Users[1].AccountId
        /\ (DecodedClaims.UserId = 0 /\ DecodedClaims.AccountId = 0) =>
              \E rows \in seen : \E r \in rows :
                    /\ r.LoginId = DecodedClaims.LoginId
                    /\ Len(r.Users) >= 2

\* the token of the principal with one user names that user and its account
C20_Witness ==
    /\ pc = "done"
    /\ HasToken
    /\ DecodedClaims.LoginId = 2
    /\ DecodedClaims.UserId = 1
    /\ DecodedClaims.AccountId = 2

====
